---- MODULE Spec2Model ----
(***************************************************************************)
(* Model of satsense/generators.py: the windowed-access generators over a  *)
(* raster image (Generator, RandomSampleGenerator, FullGenerator).         *)
(*                                                                         *)
(* Python values are represented as follows.                               *)
(*   - a tuple is a TLA+ sequence, indexed from 1 (axis 0 is element 1);   *)
(*   - an attribute that may be None is a sequence of length <= 1:        *)
(*     <<>> is None and <<v>> is the value v;                              *)
(*   - an array is represented by the absolute block range it was copied   *)
(*     from; its extent on an axis is end - start of that range;           *)
(*   - a boolean mask is the set of its truthy positions <<i, j>>.         *)
(***************************************************************************)
EXTENDS Integers, Sequences, FiniteSets, TLC

VARIABLES gen, loadStatus, res, chunks, nChunks, it, out, prevRun

vars == <<gen, loadStatus, res, chunks, nChunks, it, out, prevRun>>

(***************************************************************************)
(* Bounds of the model.                                                    *)
(***************************************************************************)
MaxWin == 2        \* window extents are drawn from 1..MaxWin on each axis
MaxImage == 2      \* raster extents are drawn from 1..MaxImage
MaxStep == 2       \* step sizes are drawn from 1..MaxStep
MaxRows == 5       \* sweep shapes have 1..MaxRows rows
MaxCols == 2       \* sweep shapes have 1..MaxCols columns
MaxChunks == 3     \* split is called with n_chunks in 1..MaxChunks
MaxSamples == 2    \* bounded sample counts are drawn from 0..MaxSamples
MaxSeed == 1       \* seeds are drawn from 0..MaxSeed
RngRange == 2      \* a draw of the seeded stream is a number in 0..RngRange-1

None == <<>>
Some(v) == <<v>>
IsNone(x) == x = <<>>
Val(x) == x[1]

Axes == {1, 2}   \* range(2), 1-based

Max2(a, b) == IF a >= b THEN a ELSE b
Min2(a, b) == IF a <= b THEN a ELSE b

\* math.ceil(a / b) and math.floor(a / b) for integers a and b > 0
CeilDiv(a, b) == -((-a) \div b)
FloorDiv(a, b) == a \div b

WindowShapes == {<<r, c>> : r \in 1..MaxWin, c \in 1..MaxWin}

\* the window lists load_image is called with: no window, one window, or
\* two windows in either order
WindowLists ==
    {<<>>} \cup {<<a>> : a \in WindowShapes}
           \cup {<<a, b>> : a \in WindowShapes, b \in WindowShapes}

(***************************************************************************)
(* sorted(windows, reverse=True): tuples compare lexicographically.        *)
(***************************************************************************)
TupleLess(a, b) == a[1] < b[1] \/ (a[1] = b[1] /\ a[2] < b[2])

RECURSIVE InsertDesc(_, _)
InsertDesc(w, s) ==
    IF s = <<>> THEN <<w>>
    ELSE IF TupleLess(Head(s), w) THEN <<w>> \o s
    ELSE <<Head(s)>> \o InsertDesc(w, Tail(s))

\* the caller's order kept
NotSorted(windows) == windows

RECURSIVE SortedReverse(_)
SortedReverse(windows) ==
    IF windows = <<>> THEN <<>>
    ELSE InsertDesc(Head(windows), SortedReverse(Tail(windows)))

RECURSIVE MaxOver(_, _)
MaxOver(windows, axis) ==
    IF Len(windows) = 1 THEN windows[1][axis]
    ELSE Max2(windows[1][axis], MaxOver(Tail(windows), axis))

\* max(math.ceil(w[i]) for w in windows) for i in range(2); the window
\* extents are integers, so math.ceil(w[i]) is w[i]
ComputePadding(windows) == <<MaxOver(windows, 1), MaxOver(windows, 2)>>

(***************************************************************************)
(* Construction.                                                           *)
(***************************************************************************)
\* Generator.__init__
BaseFields(kind, image_shape) ==
    [kind |-> kind, image_shape |-> image_shape,
     loaded_itype |-> None, image_cache |-> None,
     windows |-> None, padding |-> None,
     step_size |-> <<1, 1>>, offset |-> <<0, 0>>, shape |-> image_shape,
     masks |-> <<>>, p |-> None, samples |-> None, seed |-> None]

NewGenerator(image_shape) == BaseFields("pixel", image_shape)

\* RandomSampleGenerator.__init__
NewRandomSampleGenerator(image_shape, masks, p, samples, seed) ==
    [BaseFields("sample", image_shape) EXCEPT
        !.masks = masks, !.p = p, !.samples = samples, !.seed = seed]

\* FullGenerator.__init__; shape is None (<<>>) or a tuple
NewFullGenerator(image_shape, step_size, offset, shape) ==
    [BaseFields("full", image_shape) EXCEPT
        !.step_size = step_size,
        !.offset = offset,
        !.shape = IF shape = <<>>
                  THEN <<CeilDiv(image_shape[1], step_size[1]),
                         CeilDiv(image_shape[2], step_size[2])>>
                  ELSE shape]

(***************************************************************************)
(* Block Calculator.                                                       *)
(***************************************************************************)
\* Generator._get_blocks
BaseBlock(g, i) == <<-Val(g.padding)[i], g.image_shape[i] + Val(g.padding)[i]>>

BaseBlocks(g) == <<BaseBlock(g, 1), BaseBlock(g, 2)>>

\* FullGenerator._get_blocks
FullBlock(g, i) ==
    LET offset == g.offset[i] * g.step_size[i]
    IN <<offset - Val(g.padding)[i],
         offset + Val(g.padding)[i] + g.shape[i] * g.step_size[i]>>

\* the offset left out of the block
FullBlocksNoOffset(g) ==
    <<<<-Val(g.padding)[1], Val(g.padding)[1] + g.shape[1] * g.step_size[1]>>,
      <<-Val(g.padding)[2], Val(g.padding)[2] + g.shape[2] * g.step_size[2]>>>>

FullBlocks(g) == <<FullBlock(g, 1), FullBlock(g, 2)>>

GetBlocks(g) == IF g.kind = "full" THEN FullBlocks(g) ELSE BaseBlocks(g)

(***************************************************************************)
(* Coordinate Mapper: a slice is <<start, end>>.                           *)
(***************************************************************************)
\* the padding left out of the middle
BaseSliceUnpadded(g, index, window, i) ==
    LET mid == index[i]
        start == mid - FloorDiv(window[i], 2)
    IN <<start, start + window[i]>>

\* Generator._get_slices
BaseSlice(g, index, window, i) ==
    LET mid == Val(g.padding)[i] + index[i]
        start == mid - FloorDiv(window[i], 2)
    IN <<start, start + window[i]>>

BaseSlices(g, index, window) ==
    <<BaseSlice(g, index, window, 1), BaseSlice(g, index, window, 2)>>

\* FullGenerator._get_slices; floor((index + .5) * step) = floor((2 index + 1) step / 2)
FullSlice(g, index, window, i) ==
    LET mid == Val(g.padding)[i] + FloorDiv((2 * index[i] + 1) * g.step_size[i], 2)
        start == mid - FloorDiv(window[i], 2)
    IN <<start, start + window[i]>>

FullSlices(g, index, window) ==
    <<FullSlice(g, index, window, 1), FullSlice(g, index, window, 2)>>

GetSlices(g, index, window) ==
    IF g.kind = "full" THEN FullSlices(g, index, window)
    ELSE BaseSlices(g, index, window)

(***************************************************************************)
(* The raster collaborator and the array it returns.                       *)
(***************************************************************************)
Layers == {"rgb"}
LayerKeys == {"rgb", "ndvi"}

\* image.copy_block(block)[itype]: the array of the block, extent end - start
CopyBlock(block, itype) == [itype |-> itype, block |-> block]

ArrayExtent(cache, axis) == cache.block[axis][2] - cache.block[axis][1]

\* the length of array[start:end] on an axis of extent n (basic slicing:
\* a negative bound counts from the end, bounds are clipped to [0, n])
SliceLen(start, end, n) ==
    LET norm(x) == IF x < 0 THEN Max2(x + n, 0) ELSE Min2(x, n)
    IN Max2(norm(end) - norm(start), 0)


(***************************************************************************)
(* Generator.load_image.  The call returns the generator as the call left  *)
(* it and how the call ended: "ok", or the exception that ended it.        *)
(*   fails: whether image.copy_block raises.                               *)
(***************************************************************************)
LoadImage(g, itype, windows, fails) ==
    LET g1 == [g EXCEPT !.windows = Some(SortedReverse(windows))]
    IN IF windows = <<>>
       THEN [g |-> g1, status |-> "ValueError"]   \* max() of an empty sequence
       ELSE
       LET g2 == [g1 EXCEPT !.padding = Some(ComputePadding(windows))]
           block == GetBlocks(g2)
       IN IF fails
          THEN [g |-> g2, status |-> "CopyBlockError"]
          ELSE IF itype \notin Layers
          THEN [g |-> g2, status |-> "KeyError"]
          ELSE [g |-> [g2 EXCEPT !.image_cache = Some(CopyBlock(block, itype)),
                                 !.loaded_itype = Some(itype)],
                status |-> "ok"]

(***************************************************************************)
(* Generator.__getitem__: index is <<row, col>>, window the third element  *)
(* of the subscript.  The value is the sub-array: its shape and the        *)
(* absolute raster region it covers when the slices lie inside the array.  *)
(***************************************************************************)
NoValue == [shape |-> <<0, 0>>, slices |-> <<<<0, 0>>, <<0, 0>>>>,
            region |-> <<<<0, 0>>, <<0, 0>>>>]

GetItem(g, index, window) ==
    IF IsNone(g.padding)
    THEN [status |-> "TypeError", value |-> NoValue]   \* None[i] in _get_slices
    ELSE
    LET slices == GetSlices(g, index, window)
    IN IF IsNone(g.image_cache)
       THEN [status |-> "TypeError", value |-> NoValue]   \* None[slices]
       ELSE
       LET cache == Val(g.image_cache)
       IN [status |-> "ok",
           value |->
             [shape |-> <<SliceLen(slices[1][1], slices[1][2], ArrayExtent(cache, 1)),
                          SliceLen(slices[2][1], slices[2][2], ArrayExtent(cache, 2))>>,
              slices |-> slices,
              region |-> <<<<cache.block[1][1] + slices[1][1],
                             cache.block[1][1] + slices[1][2]>>,
                           <<cache.block[2][1] + slices[2][1],
                             cache.block[2][1] + slices[2][2]>>>>]]

(***************************************************************************)
(* FullGenerator.split: the sub-generators it yields, in order.            *)
(***************************************************************************)
\* row_offset = self.offset[0] + job * chunk_size
RowOffset(g, job, chunk_size) == g.offset[1] + job * chunk_size

\* row_length = min(chunk_size, self.shape[0] - row_offset)
RowLength(g, row_offset, chunk_size) == Min2(chunk_size, g.shape[1] - row_offset)

RECURSIVE SplitFrom(_, _, _, _)
SplitFrom(g, n_chunks, job, chunk_size) ==
    IF job >= n_chunks THEN <<>>
    ELSE
    LET row_offset == RowOffset(g, job, chunk_size)
        row_length == RowLength(g, row_offset, chunk_size)
    IN IF row_length <= 0 THEN <<>>
       ELSE <<NewFullGenerator(g.image_shape, g.step_size,
                               <<row_offset, g.offset[2]>>,
                               <<row_length, g.shape[2]>>)>>
            \o SplitFrom(g, n_chunks, job + 1, chunk_size)

Split(g, n_chunks) == SplitFrom(g, n_chunks, 0, CeilDiv(g.shape[1], n_chunks))

(***************************************************************************)
(* FullGenerator.__iter__: the nested loops.  A position is the cell and   *)
(* the window (0-based) the iterator is suspended at.                      *)
(***************************************************************************)
Exhausted == [done |-> TRUE, i |-> 0, j |-> 0, k |-> 0]

\* the next yield at or after window k of cell (i, j)
RECURSIVE NextYield(_, _, _, _)
NextYield(g, i, j, k) ==
    IF i >= g.shape[1] THEN Exhausted
    ELSE IF j >= g.shape[2] THEN NextYield(g, i + 1, 0, 0)
    ELSE IF k >= Len(Val(g.windows)) THEN NextYield(g, i, j + 1, 0)
    ELSE [done |-> FALSE, i |-> i, j |-> j, k |-> k]

\* what a yield hands to the consumer
Item(g, index, window, truth) ==
    [index |-> index, window |-> window, truth |-> truth,
     value |-> GetItem(g, index, window).value]

SweepItem(g, pos) == Item(g, <<pos.i, pos.j>>, Val(g.windows)[pos.k + 1], None)

\* everything one iteration of a loaded sweep generator yields
RECURSIVE SweepFrom(_, _)
SweepFrom(g, pos) ==
    IF pos.done THEN <<>>
    ELSE <<SweepItem(g, pos)>> \o SweepFrom(g, NextYield(g, pos.i, pos.j, pos.k + 1))

Sweep(g) == SweepFrom(g, NextYield(g, 0, 0, 0))


(***************************************************************************)
(* RandomSampleGenerator.__iter__.                                         *)
(***************************************************************************)
\* while sample < self.samples
LoopCondInclusive(sample, samples) == sample <= samples

LoopCond(sample, samples) == sample < samples

\* np.argwhere(mask.filled(0)): the truthy positions in row-major order
RECURSIVE Choices(_)
Choices(mask) ==
    IF mask = {} THEN <<>>
    ELSE LET first == CHOOSE a \in mask : \A b \in mask : a = b \/ TupleLess(a, b)
         IN <<first>> \o Choices(mask \ {first})

\* The n-th number (n = 1, 2, ...) of np.random.RandomState(seed): a function
\* of the seed and of n alone.
Stream(seed, n) == (seed + n * (seed + 1)) % RngRange

\* rand_state.choice(len(self.masks), p=self.p): the classes (0-based) draw
\* number n can give.  Without a seed the state comes from the system's
\* entropy and any class with a positive probability can be drawn.
RECURSIVE Cumulative(_, _)
Cumulative(p, c) == IF c = 0 THEN 0 ELSE p[c] + Cumulative(p, c - 1)

ClassOf(g, u) ==
    IF IsNone(g.p) THEN u % Len(g.masks)
    ELSE (CHOOSE c \in 1..Len(g.masks) :
             /\ Cumulative(Val(g.p), c) > u
             /\ \A d \in 1..(c - 1) : Cumulative(Val(g.p), d) <= u) - 1

ClassDraws(g, n) ==
    IF IsNone(g.seed)
    THEN {ClassOf(g, u) : u \in 0..(RngRange - 1)}
    ELSE {ClassOf(g, Stream(Val(g.seed), n))}

(***************************************************************************)
(* State.                                                                  *)
(*   gen         the generator object                                      *)
(*   loadStatus  how the last load_image call on gen ended ("never": none) *)
(*   res         the outcome of the last indexed read gen[row, col, window] *)
(*   chunks      list(gen.split(nChunks)) of the last split call           *)
(*   it          the iterator iter(gen) being consumed                     *)
(*   out         what that iterator has yielded so far                     *)
(*   prevRun     the draws of the first iteration of gen that finished     *)
(***************************************************************************)
NoRes == [status |-> "none", index |-> <<0, 0>>, window |-> <<1, 1>>,
          value |-> NoValue]

IdleIt == [pc |-> "idle", i |-> 0, j |-> 0, k |-> 0, sample |-> 0,
           truth |-> 0, err |-> "", draws |-> <<>>]

InitWith(g) ==
    /\ gen = g
    /\ loadStatus = "never"
    /\ res = NoRes
    /\ chunks = <<>>
    /\ nChunks = 0
    /\ it = IdleIt
    /\ out = <<>>
    /\ prevRun = None

\* the cells of the logical shape: the raster for the pixel policy, the
\* shape in steps for the step policy
Cells(g) ==
    IF g.kind = "full"
    THEN {<<i, j>> : i \in 0..(g.shape[1] - 1), j \in 0..(g.shape[2] - 1)}
    ELSE {<<i, j>> : i \in 0..(g.image_shape[1] - 1), j \in 0..(g.image_shape[2] - 1)}

(***************************************************************************)
(* Operations.  A caller loads before it reads or iterates (reads and      *)
(* iterations change nothing of the generator), and a caller whose         *)
(* load_image call raised makes no further load_image call on that         *)
(* instance.                                                               *)
(***************************************************************************)
\* the first load_image call on the instance
Load(itype, windows, fails) ==
    /\ loadStatus = "never"
    /\ it.pc = "idle"
    /\ res.status = "none"
    /\ LET r == LoadImage(gen, itype, windows, fails)
       IN /\ gen' = r.g
          /\ loadStatus' = r.status
    /\ UNCHANGED <<res, chunks, nChunks, it, out, prevRun>>

\* a further load_image call on a loaded instance
Reload(itype, windows, fails) ==
    /\ loadStatus = "ok"
    /\ it.pc = "idle"
    /\ res.status = "none"
    /\ LET r == LoadImage(gen, itype, windows, fails)
       IN /\ gen' = r.g
          /\ loadStatus' = r.status
    /\ UNCHANGED <<res, chunks, nChunks, it, out, prevRun>>

Read(index, window) ==
    /\ LET r == GetItem(gen, index, window)
       IN res' = [status |-> r.status, index |-> index, window |-> window,
                  value |-> r.value]
    /\ UNCHANGED <<gen, loadStatus, chunks, nChunks, it, out, prevRun>>

SplitOp(n_chunks) ==
    /\ gen.kind = "full"
    /\ it.pc = "idle"
    /\ chunks' = Split(gen, n_chunks)
    /\ nChunks' = n_chunks
    /\ UNCHANGED <<gen, loadStatus, res, it, out, prevRun>>

\* the caller goes on with the k-th sub-generator split returned
Descend(k) ==
    /\ k \in 1..Len(chunks)
    /\ it.pc = "idle"
    /\ gen' = chunks[k]
    /\ loadStatus' = "never"
    /\ chunks' = <<>>
    /\ nChunks' = 0
    /\ UNCHANGED <<res, it, out, prevRun>>

\* iter(gen): a new iterator; nothing of its body has run yet
IterStart ==
    /\ gen.kind \in {"full", "sample"}
    /\ it.pc = "idle"
    /\ it' = [IdleIt EXCEPT !.pc = "created"]
    /\ out' = <<>>
    /\ UNCHANGED <<gen, loadStatus, res, chunks, nChunks, prevRun>>

\* iter(gen) again, once the iterator before has finished
IterRestart ==
    /\ it.pc = "done"
    /\ it' = [IdleIt EXCEPT !.pc = "created"]
    /\ out' = <<>>
    /\ prevRun' = IF IsNone(prevRun) THEN Some(it.draws) ELSE prevRun
    /\ UNCHANGED <<gen, loadStatus, res, chunks, nChunks>>

\* the first pull: if self._image_cache is None: raise RuntimeError
IterBegin ==
    /\ it.pc = "created"
    /\ it' = IF IsNone(gen.image_cache)
             THEN [it EXCEPT !.pc = "failed", !.err = "RuntimeError"]
             ELSE [it EXCEPT !.pc = IF gen.kind = "full" THEN "sweep" ELSE "while",
                             !.k = -1]
    /\ UNCHANGED <<gen, loadStatus, res, chunks, nChunks, out, prevRun>>

\* a pull of the sweep: run to the next yield, or to the end
SweepNext ==
    /\ it.pc = "sweep"
    /\ LET pos == NextYield(gen, it.i, it.j, it.k + 1)
       IN IF pos.done
          THEN /\ it' = [it EXCEPT !.pc = "done"]
               /\ out' = out
          ELSE /\ it' = [it EXCEPT !.i = pos.i, !.j = pos.j, !.k = pos.k]
               /\ out' = Append(out, SweepItem(gen, pos))
    /\ UNCHANGED <<gen, loadStatus, res, chunks, nChunks, prevRun>>

\* the head of the while loop and the draws of one sample; pos is what
\* np.random.choice, the process-wide source, picks
SampleDraw(truth, c) ==
    /\ it.pc = "while"
    /\ IF IsNone(gen.samples)
       THEN it' = [it EXCEPT !.pc = "failed", !.err = "TypeError"]   \* 0 < None
       ELSE IF ~LoopCond(it.sample, Val(gen.samples))
       THEN it' = [it EXCEPT !.pc = "done"]
       ELSE /\ truth \in ClassDraws(gen, it.sample + 1)
            /\ LET choices == Choices(gen.masks[truth + 1])
               IN IF choices = <<>>
                  THEN it' = [it EXCEPT !.pc = "failed", !.err = "ValueError",
                                        !.sample = @ + 1]
                  ELSE /\ c \in 1..Len(choices)
                       /\ it' = [it EXCEPT !.pc = "for", !.sample = @ + 1,
                                           !.truth = truth,
                                           !.i = choices[c][1], !.j = choices[c][2],
                                           !.k = 0,
                                           !.draws = Append(@, <<choices[c], truth>>)]
    /\ UNCHANGED <<gen, loadStatus, res, chunks, nChunks, out, prevRun>>

\* for window in self._windows: yield self[i, j, window], truth
SampleYield ==
    /\ it.pc = "for"
    /\ IF it.k < Len(Val(gen.windows))
       THEN /\ out' = Append(out, Item(gen, <<it.i, it.j>>,
                                       Val(gen.windows)[it.k + 1], Some(it.truth)))
            /\ it' = [it EXCEPT !.k = @ + 1]
       ELSE /\ out' = out
            /\ it' = [it EXCEPT !.pc = "while"]
    /\ UNCHANGED <<gen, loadStatus, res, chunks, nChunks, prevRun>>

(***************************************************************************)
(* Specifications.                                                         *)
(***************************************************************************)
ImageShapes == {<<r, c>> : r \in 1..MaxImage, c \in 1..MaxImage}
StepSizes == {<<r, c>> : r \in 1..MaxStep, c \in 1..MaxStep}
\* one step size per row step, the column step running the other way
SweepSteps == {<<r, MaxStep + 1 - r>> : r \in 1..MaxStep}
SweepShapes == {<<r, c>> : r \in 1..MaxRows, c \in 1..MaxCols}

\* the masks of the sampling generators over a 2 x 2 raster: one class, two
\* classes, and a class with no truthy position
MaskLists ==
    {<<{<<0, 0>>, <<1, 1>>}>>,
     <<{<<0, 1>>}, {<<1, 0>>, <<1, 1>>}>>,
     <<{<<0, 0>>}, {}>>}

\* p: None, or the probability of each class in units of 1 / RngRange
Probabilities(masks) ==
    {None} \cup {Some(p) : p \in {q \in [1..Len(masks) -> 0..RngRange] :
                                     Cumulative(q, Len(masks)) = RngRange}}

SampleCounts == {None} \cup {Some(n) : n \in 0..MaxSamples}
Seeds == {None} \cup {Some(n) : n \in 0..MaxSeed}

\* the windows a caller reads: those it configured, if it configured any
ReadWindows(g) ==
    IF IsNone(g.windows) \/ g.windows = Some(<<>>) THEN WindowShapes
    ELSE {Val(g.windows)[k] : k \in 1..Len(Val(g.windows))}

LoadArgs == LayerKeys \X WindowLists \X BOOLEAN

\* indexed access: pixel and sweep generators, loads, reloads and reads
Init ==
    \E g \in {NewGenerator(s) : s \in ImageShapes}
             \cup {NewFullGenerator(<<MaxImage, MaxImage>>, st, <<0, 0>>, None) :
                      st \in StepSizes} :
        InitWith(g)

Next ==
    \/ \E a \in LoadArgs : Load(a[1], a[2], a[3])
    \/ \E a \in LoadArgs : Reload(a[1], a[2], a[3])
    \/ \E index \in Cells(gen), window \in ReadWindows(gen) : Read(index, window)

Spec == Init /\ [][Next]_vars

\* sweeps and splits of generators loaded once
InitSweep ==
    \E st \in SweepSteps, sh \in SweepShapes :
        InitWith(NewFullGenerator(<<MaxImage, MaxImage>>, st, <<0, 0>>, sh))

NextSweep ==
    \/ \E a \in LoadArgs : Load(a[1], a[2], a[3])
    \/ \E n_chunks \in 1..MaxChunks : SplitOp(n_chunks)
    \/ \E k \in 1..MaxChunks : Descend(k)
    \/ IterStart
    \/ IterBegin
    \/ SweepNext

SpecSweep == InitSweep /\ [][NextSweep]_vars

\* one iteration of sampling generators loaded once
InitSample ==
    \E masks \in MaskLists, samples \in SampleCounts, seed \in Seeds :
        \E p \in Probabilities(masks) :
            InitWith(NewRandomSampleGenerator(<<2, 2>>, masks, p, samples, seed))

NextSample ==
    \/ \E a \in LoadArgs : Load(a[1], a[2], a[3])
    \/ IterStart
    \/ IterBegin
    \/ \E truth \in 0..(Len(gen.masks) - 1), c \in 1..Cardinality(Cells(gen)) :
          SampleDraw(truth, c)
    \/ SampleYield

SpecSample == InitSample /\ [][NextSample]_vars

\* repeated iterations of seeded sampling generators
InitSeeded ==
    \E masks \in MaskLists, samples \in SampleCounts, seed \in Seeds \ {None} :
        InitWith(NewRandomSampleGenerator(<<2, 2>>, masks, None, samples, seed))

NextSeeded ==
    \/ NextSample
    \/ IterRestart

SpecSeeded == InitSeeded /\ [][NextSeeded]_vars

(***************************************************************************)
(* Properties.                                                             *)
(***************************************************************************)
Loaded == ~IsNone(gen.image_cache)
Stored == Val(gen.windows)
MasksNonEmpty == \A c \in 1..Len(gen.masks) : gen.masks[c] # {}

\* C1: after a load that succeeded, for every configured window and every
\* index inside the logical shape, the slices of the coordinate mapper
\* satisfy 0 <= start and end <= extent of the cached block on both axes,
\* and the extracted sub-array has exactly the window's shape.
C1_WindowInsideBlock ==
    loadStatus = "ok" =>
        \A k \in 1..Len(Stored), index \in Cells(gen) :
            LET window == Stored[k]
                slices == GetSlices(gen, index, window)
                r == GetItem(gen, index, window)
            IN /\ \A axis \in Axes :
                    /\ 0 <= slices[axis][1]
                    /\ slices[axis][2] <= ArrayExtent(Val(gen.image_cache), axis)
               /\ r.status = "ok"
               /\ r.value.shape = window

\* a read of the largest of two configured windows at the last cell of a
\* sweep generator with step 2, which returned the window's shape
C1_Witness ==
    /\ loadStatus = "ok"
    /\ gen.kind = "full"
    /\ gen.step_size = <<2, 1>>
    /\ Len(Stored) = 2
    /\ Stored[1] # Stored[2]
    /\ res.status = "ok"
    /\ res.window = Stored[1]
    /\ res.index = <<gen.shape[1] - 1, gen.shape[2] - 1>>
    /\ res.value.shape = res.window

\* C2: after a load with a non-empty window list, the stored padding on
\* each axis is ceil(max over the windows of window[axis] / 2).
C2_PaddingIsHalfExtent ==
    loadStatus = "ok" =>
        \A axis \in Axes :
            Val(gen.padding)[axis] = CeilDiv(MaxOver(Stored, axis), 2)

C4_SplitCoversRows ==
    (gen.kind = "full" /\ nChunks >= 1 /\ gen.shape[1] >= 1) =>
        /\ Len(chunks) >= 1
        /\ Len(chunks) <= nChunks
        /\ chunks[1].offset[1] - gen.offset[1] = 0
        /\ \A k \in 1..Len(chunks) :
             /\ chunks[k].shape[1] >= 1
             /\ chunks[k].step_size = gen.step_size
             /\ chunks[k].offset[2] = gen.offset[2]
             /\ chunks[k].shape[2] = gen.shape[2]
             /\ k < Len(chunks) =>
                  chunks[k + 1].offset[1] = chunks[k].offset[1] + chunks[k].shape[1]
        /\ LET last == chunks[Len(chunks)]
           IN last.offset[1] - gen.offset[1] + last.shape[1] = gen.shape[1]

\* C5: an indexed read on an instance on which load has not succeeded fails
\* with the unloaded-state error, the RuntimeError the iterations raise.
C5_UnloadedReadError ==
    (res.status # "none" /\ ~Loaded) => res.status = "RuntimeError"

\* C6: the stored windows, the stored padding and the cached block always
\* come from the same load call: the padding is that of the stored windows
\* and the cache is the block computed from the stored padding.
C6_CacheMatchesPadding ==
    /\ (~IsNone(gen.padding) /\ Stored # <<>>) =>
           Val(gen.padding) = ComputePadding(Stored)
    /\ Loaded =>
           /\ ~IsNone(gen.padding)
           /\ Val(gen.image_cache).block = GetBlocks(gen)

\* C7: two finished iterations of a seeded sampling generator made the same
\* sequence of (position, class) draws.
C7_SeededRunsAgree ==
    (/\ gen.kind = "sample"
     /\ ~IsNone(gen.seed)
     /\ ~IsNone(prevRun)
     /\ it.pc = "done") => it.draws = Val(prevRun)

\* C8: the iteration of a loaded sampling generator without a sample count,
\* all masks having a truthy position, never finishes and never fails.
C8_UnboundedNeverEnds ==
    (/\ gen.kind = "sample"
     /\ IsNone(gen.samples)
     /\ Loaded
     /\ MasksNonEmpty) => it.pc \notin {"done", "failed"}

\* C9: the iteration of a loaded sampling generator with sample count K and
\* W stored windows, all masks having a truthy position, does not fail and
\* yields K*W items before it finishes; the items of sample s are the stored
\* windows in order, all at the position and with the class drawn for s, and
\* the position is truthy in the mask of that class.
C9_BoundedSampling ==
    (/\ gen.kind = "sample"
     /\ ~IsNone(gen.samples)
     /\ Loaded
     /\ MasksNonEmpty
     /\ it.pc \notin {"idle", "created"}) =>
        LET K == Val(gen.samples)
            W == Len(Stored)
        IN /\ it.pc # "failed"
           /\ Len(out) <= K * W
           /\ it.pc = "done" => (Len(out) = K * W /\ Len(it.draws) = K)
           /\ \A s \in 1..Len(it.draws) :
                it.draws[s][1] \in gen.masks[it.draws[s][2] + 1]
           /\ \A n \in 1..Len(out) :
                LET s == ((n - 1) \div W) + 1
                IN /\ s <= Len(it.draws)
                   /\ out[n].window = Stored[((n - 1) % W) + 1]
                   /\ out[n].index = it.draws[s][1]
                   /\ out[n].truth = Some(it.draws[s][2])

\* a finished iteration of two samples over two classes and two windows
C9_Witness ==
    /\ gen.kind = "sample"
    /\ gen.samples = Some(2)
    /\ Len(gen.masks) = 2
    /\ MasksNonEmpty
    /\ Loaded
    /\ Len(Stored) = 2
    /\ Stored[1] # Stored[2]
    /\ it.pc = "done"
    /\ Len(out) = 4
    /\ it.draws[1] # it.draws[2]

\* the window and the absolute raster region of each item of a sweep
Regions(items) ==
    [n \in 1..Len(items) |->
        [window |-> items[n].window, shape |-> items[n].value.shape,
         region |-> items[n].value.region]]

\* the sweeps of the sub-generators, each loaded with the parent's layer
\* and windows, one after the other
RECURSIVE ChunkSweeps(_, _, _)
ChunkSweeps(subs, itype, windows) ==
    IF subs = <<>> THEN <<>>
    ELSE Regions(Sweep(LoadImage(Head(subs), itype, windows, FALSE).g))
         \o ChunkSweeps(Tail(subs), itype, windows)

\* C10: for a loaded sweep generator with offset (0, 0), the sweeps of the
\* sub-generators split returned, each loaded with the same layer and
\* windows, concatenated in order, cover item by item the same absolute
\* raster regions with the same windows as the sweep of the parent.
C10_SplitPreservesSweep ==
    (/\ gen.kind = "full"
     /\ gen.offset = <<0, 0>>
     /\ nChunks >= 1
     /\ loadStatus = "ok"
     /\ it.pc = "idle") =>
        ChunkSweeps(chunks, Val(gen.loaded_itype), Stored) = Regions(Sweep(gen))

\* a loaded parent of five rows split in two chunks, of rows 0..2 and
\* 3..4, with two windows
C10_Witness ==
    /\ gen.kind = "full"
    /\ gen.offset = <<0, 0>>
    /\ loadStatus = "ok"
    /\ gen.shape[1] = 5
    /\ gen.step_size = <<2, 1>>
    /\ nChunks = 2
    /\ Len(chunks) = 2
    /\ chunks[1].offset[1] = 0 /\ chunks[1].shape[1] = 3
    /\ chunks[2].offset[1] = 3 /\ chunks[2].shape[1] = 2
    /\ Len(Stored) = 2
    /\ Stored[1] # Stored[2]

====
